---------------------------- MODULE Spec2Model ----------------------------
(***************************************************************************)
(* The parsing module of flow_lang (src/flow_lang/src/parsing/mod.rs): the *)
(* LispVal value model, its Display rendering, and the nom-combinator      *)
(* parsers parse_symbol, parse_number, parse_list, parse_unevaluated,      *)
(* parse_expression and parse.                                             *)
(*                                                                         *)
(* Text is a sequence of one-character strings.  A parser result is either *)
(* Err (nom's recoverable Err::Error) or Ok(rest, out).  An i64 is kept in *)
(* sign-magnitude decimal form, most significant digit first, because its  *)
(* range is wider than the integers of the model checker.                  *)
(***************************************************************************)
EXTENDS Integers, Sequences, FiniteSets, TLC

VARIABLES input, rest, forms, pc, arg, res, val, shown, echo

vars == <<input, rest, forms, pc, arg, res, val, shown, echo>>

----------------------------------------------------------------------------
(* Bounds of the model. *)

\* pieces per input text of the top-level caller
MaxPieces == 4
\* pieces per input text handed to a single parser
MaxUnitPieces == 3
\* nodes per rendered value
MaxNodes == 3

----------------------------------------------------------------------------
(* Characters. *)

Lower == {"a", "b", "c", "d", "e", "f", "g", "h", "i", "j", "k", "l", "m",
          "n", "o", "p", "q", "r", "s", "t", "u", "v", "w", "x", "y", "z"}
Upper == {"A", "B", "C", "D", "E", "F", "G", "H", "I", "J", "K", "L", "M",
          "N", "O", "P", "Q", "R", "S", "T", "U", "V", "W", "X", "Y", "Z"}
Alpha == Lower \cup Upper
Digit == {"0", "1", "2", "3", "4", "5", "6", "7", "8", "9"}
AlphaNum == Alpha \cup Digit
Operators == {">", "<", "+", "-", "*", "/", "%", "="}
Space == {" ", "\t", "\r", "\n"}

DigitChars == <<"0", "1", "2", "3", "4", "5", "6", "7", "8", "9">>
\* char -> digit value, as str::parse reads it
DigitVal(c) == (CHOOSE i \in 1..10 : DigitChars[i] = c) - 1
\* digit value -> char, as to_string writes it
DigitChar(d) == DigitChars[d + 1]

----------------------------------------------------------------------------
(* Sequences. *)

Drop(s, n) == SubSeq(s, n + 1, Len(s))
Take(s, n) == SubSeq(s, 1, n)

RECURSIVE Flatten(_)
Flatten(ss) == IF ss = <<>> THEN <<>> ELSE Head(ss) \o Flatten(Tail(ss))

StartsWith(s, p) == Len(p) <= Len(s) /\ Take(s, Len(p)) = p

----------------------------------------------------------------------------
(* The value model. *)

Symbol(s) == [t |-> "Symbol", s |-> s]
String(s) == [t |-> "String", s |-> s]
List(l) == [t |-> "List", l |-> l]
Number(n) == [t |-> "Number", n |-> n]
Unevaluated(v) == [t |-> "Unevaluated", v |-> v]
Void == [t |-> "Void"]

\* i64 values: sign and decimal magnitude without leading zeros
I64(neg, mag) == [neg |-> neg, mag |-> mag]
I64Max == <<9, 2, 2, 3, 3, 7, 2, 0, 3, 6, 8, 5, 4, 7, 7, 5, 8, 0, 7>>
Zero == I64(FALSE, <<0>>)
One == I64(FALSE, <<1>>)

\* a <= b for digit sequences of the same length
RECURSIVE DigitsLeq(_, _)
DigitsLeq(a, b) ==
    IF a = <<>> THEN TRUE
    ELSE IF Head(a) # Head(b) THEN Head(a) < Head(b)
    ELSE DigitsLeq(Tail(a), Tail(b))

RECURSIVE StripZeros(_)
StripZeros(d) ==
    IF Len(d) > 1 /\ Head(d) = 0 THEN StripZeros(Tail(d)) ELSE d

\* i64::to_string
to_string(n) ==
    (IF n.neg THEN <<"-">> ELSE <<>>) \o [i \in 1..Len(n.mag) |-> DigitChar(n.mag[i])]

RECURSIVE Display(_)
RECURSIVE JoinDisplay(_)
\* join("") in place of join(" ")
JoinDisplay_NoSeparator(values) ==
    IF values = <<>> THEN <<>>
    ELSE Display(values[1]) \o JoinDisplay(Tail(values))

JoinDisplay(values) ==
    IF values = <<>> THEN <<>>
    ELSE IF Len(values) = 1 THEN Display(values[1])
    ELSE Display(values[1]) \o <<" ">> \o JoinDisplay(Tail(values))

\* the quote marker is left out of the rendering
Display_NoQuoteMark(v) ==
    CASE v.t = "Void" -> <<>>
      [] v.t = "Symbol" -> v.s
      [] v.t = "Number" -> to_string(v.n)
      [] v.t = "String" -> v.s
      [] v.t = "Unevaluated" -> Display(v.v)
      [] v.t = "List" -> <<"(">> \o JoinDisplay(v.l) \o <<")">>

Display(v) ==
    CASE v.t = "Void" -> <<>>
      [] v.t = "Symbol" -> v.s
      [] v.t = "Number" -> to_string(v.n)
      [] v.t = "String" -> v.s
      [] v.t = "Unevaluated" -> <<"'">> \o Display(v.v)
      [] v.t = "List" -> <<"(">> \o JoinDisplay(v.l) \o <<")">>

----------------------------------------------------------------------------
(* Parser results and the nom combinators the module uses. *)

Err == [ok |-> FALSE]
Ok(r, o) == [ok |-> TRUE, rest |-> r, out |-> o]

\* length of the longest prefix of s made of characters of set cs
RECURSIVE Run(_, _)
Run(s, cs) == IF s # <<>> /\ Head(s) \in cs THEN 1 + Run(Tail(s), cs) ELSE 0

\* tag(t) and char(c)
tag(t, s) == IF StartsWith(s, t) THEN Ok(Drop(s, Len(t)), t) ELSE Err

\* multispace0: always succeeds
multispace0(s) == Ok(Drop(s, Run(s, Space)), Take(s, Run(s, Space)))

\* alpha1, alphanumeric1, digit1, many1(one_of(cs)): a non-empty run
run1(cs, s) == IF Run(s, cs) = 0 THEN Err ELSE Ok(Drop(s, Run(s, cs)), Take(s, Run(s, cs)))

----------------------------------------------------------------------------
(* The string literal sub-parser (parsing/string.rs, not part of this      *)
(* file): a double-quoted literal; the decoded content is returned.        *)

NotQuote == (AlphaNum \cup Operators \cup Space \cup {"(", ")", "'", "?", "_", "$"})

parse_string(s) ==
    IF s # <<>> /\ Head(s) = "\"" /\ Run(Tail(s), NotQuote) < Len(Tail(s))
         /\ Tail(s)[Run(Tail(s), NotQuote) + 1] = "\""
    THEN Ok(Drop(s, Run(Tail(s), NotQuote) + 2), Take(Tail(s), Run(Tail(s), NotQuote)))
    ELSE Err

----------------------------------------------------------------------------
(* Atomic parsers. *)

\* many0_count(alt((alphanumeric1, tag("_")))): the remainder after the loop
RECURSIVE IdentTail(_)
IdentTail(s) ==
    LET a == run1(AlphaNum, s)
        u == tag(<<"_">>, s)
    IN  IF a.ok THEN IdentTail(a.rest)
        ELSE IF u.ok THEN IdentTail(u.rest)
        ELSE s

\* one_of without many1: a single operator character
parse_operators_OneChar(s) ==
    IF s # <<>> /\ Head(s) \in Operators THEN Ok(Tail(s), <<Head(s)>>) ELSE Err

parse_operators(s) == run1(Operators, s)

parse_identifier(s) ==
    LET a == run1(Alpha, s)
        u == tag(<<"_">>, s)
        first == IF a.ok THEN a ELSE u
    IN  IF ~first.ok THEN Err
        ELSE LET t == IdentTail(first.rest)
                 q == tag(<<"?">>, t)
                 r == IF q.ok THEN q.rest ELSE t
             IN  Ok(r, Take(s, Len(s) - Len(r)))

parse_symbol(s) ==
    IF parse_operators(s).ok THEN parse_operators(s) ELSE parse_identifier(s)

\* the digits are parsed as u64: values up to 2^64 - 1 pass
ParseI64_Unsigned(ds) ==
    LET m == StripZeros([i \in 1..Len(ds) |-> DigitVal(ds[i])])
        u64Max == <<1, 8, 4, 4, 6, 7, 4, 4, 0, 7, 3, 7, 0, 9, 5, 5, 1, 6, 1, 5>>
    IN  IF Len(m) < Len(u64Max) \/ (Len(m) = Len(u64Max) /\ DigitsLeq(m, u64Max))
        THEN Ok(<<>>, I64(FALSE, m))
        ELSE Err

\* str::parse::<i64> on a non-empty run of ASCII digits
ParseI64(ds) ==
    LET m == StripZeros([i \in 1..Len(ds) |-> DigitVal(ds[i])])
    IN  IF Len(m) < Len(I64Max) \/ (Len(m) = Len(I64Max) /\ DigitsLeq(m, I64Max))
        THEN Ok(<<>>, I64(FALSE, m))
        ELSE Err

parse_number(s) ==
    LET t == tag(<<"t", "r", "u", "e">>, s)
        f == tag(<<"f", "a", "l", "s", "e">>, s)
        d == run1(Digit, s)
    IN  IF t.ok THEN Ok(t.rest, One)
        ELSE IF f.ok THEN Ok(f.rest, Zero)
        ELSE IF d.ok /\ ParseI64(d.out).ok THEN Ok(d.rest, ParseI64(d.out).out)
        ELSE Err

----------------------------------------------------------------------------
(* Recursive parsers. *)

RECURSIVE parse_expression(_)
RECURSIVE parse_list(_)
RECURSIVE parse_unevaluated(_)
RECURSIVE many0(_, _)

\* many0(parse_expression): collects until the first error; an element
\* that succeeds without consuming input is an error of many0 itself
many0(s, acc) ==
    LET e == parse_expression(s)
    IN  IF ~e.ok THEN Ok(s, acc)
        ELSE IF Len(e.rest) = Len(s) THEN Err
        ELSE many0(e.rest, Append(acc, e.out))

\* opt(char(')')): a list that is never closed is accepted
parse_list_OptionalClose(s) ==
    LET open == tag(<<"(">>, s)
    IN  IF ~open.ok THEN Err
        ELSE LET body == many0(open.rest, <<>>)
             IN  IF ~body.ok THEN Err
                 ELSE LET close == tag(<<")">>, body.rest)
                      IN  IF close.ok THEN Ok(close.rest, body.out)
                          ELSE Ok(body.rest, body.out)

parse_list(s) ==
    LET open == tag(<<"(">>, s)
    IN  IF ~open.ok THEN Err
        ELSE LET body == many0(open.rest, <<>>)
             IN  IF ~body.ok THEN Err
                 ELSE LET close == tag(<<")">>, body.rest)
                      IN  IF close.ok THEN Ok(close.rest, body.out) ELSE Err

\* the quote marker is consumed but the operand is returned unwrapped
parse_unevaluated_Unwrapped(s) ==
    LET q == tag(<<"'">>, s)
    IN  IF ~q.ok THEN Err ELSE parse_expression(q.rest)

parse_unevaluated(s) ==
    LET q == tag(<<"'">>, s)
    IN  IF ~q.ok THEN Err
        ELSE LET e == parse_expression(q.rest)
             IN  IF e.ok THEN Ok(e.rest, Unevaluated(e.out)) ELSE Err

\* Symbol tried before Number
Alternative_SymbolFirst(k, s) ==
    CASE k = 1 -> parse_unevaluated(s)
      [] k = 3 -> LET n == parse_number(s) IN IF n.ok THEN Ok(n.rest, Number(n.out)) ELSE Err
      [] k = 2 -> LET y == parse_symbol(s) IN IF y.ok THEN Ok(y.rest, Symbol(y.out)) ELSE Err
      [] k = 4 -> LET g == parse_string(s) IN IF g.ok THEN Ok(g.rest, String(g.out)) ELSE Err
      [] k = 5 -> LET l == parse_list(s) IN IF l.ok THEN Ok(l.rest, List(l.out)) ELSE Err

\* the five alternatives of the dispatcher, in the order alt tries them
Alternative(k, s) ==
    CASE k = 1 -> parse_unevaluated(s)
      [] k = 2 -> LET n == parse_number(s) IN IF n.ok THEN Ok(n.rest, Number(n.out)) ELSE Err
      [] k = 3 -> LET y == parse_symbol(s) IN IF y.ok THEN Ok(y.rest, Symbol(y.out)) ELSE Err
      [] k = 4 -> LET g == parse_string(s) IN IF g.ok THEN Ok(g.rest, String(g.out)) ELSE Err
      [] k = 5 -> LET l == parse_list(s) IN IF l.ok THEN Ok(l.rest, List(l.out)) ELSE Err

RECURSIVE alt(_, _)
alt(k, s) ==
    IF k > 5 THEN Err
    ELSE LET r == Alternative(k, s) IN IF r.ok THEN r ELSE alt(k + 1, s)

parse_expression(s) == alt(1, multispace0(s).rest)

\* peek: the value is returned and the input is not advanced
parse_Peek(s) ==
    LET e == parse_expression(s)
    IN  IF e.ok THEN Ok(s, e.out) ELSE Err

\* terminated(...) forgotten: the trailing whitespace is left in place
parse_NoTrailing(s) ==
    LET e == parse_expression(s)
    IN  IF e.ok THEN Ok(e.rest, e.out) ELSE Err

parse(s) ==
    LET e == parse_expression(s)
    IN  IF e.ok THEN Ok(multispace0(e.rest).rest, e.out) ELSE Err

----------------------------------------------------------------------------
(* Inputs of the model. *)

\* all texts made of at most n pieces of vocab
Texts(vocab, n) == {Flatten(ps) : ps \in UNION {[1..k -> vocab] : k \in 0..n}}

True == <<"t", "r", "u", "e">>
False == <<"f", "a", "l", "s", "e">>

\* pieces of the texts the top-level caller is given
Vocab == {<<"(">>, <<")">>, <<"'">>, <<" ">>, <<"a">>, <<"0">>,
          <<">">>, True, <<"$">>}

\* pieces of the texts a single parser is applied to
UnitVocab == {<<"(">>, <<")">>, <<"'">>, <<" ">>, <<"a">>, <<"_">>, <<"?">>,
              <<">">>, <<"=">>, True, False, <<"\"">>, <<"$">>,
              <<"0">>, <<"7">>, <<"8">>,
              <<"9", "2", "2", "3", "3", "7", "2", "0", "3",
                "6", "8", "5", "4", "7", "7", "5", "8", "0">>}

\* payloads of the leaves of the values that are rendered
Leaves == {Symbol(<<"a">>), Symbol(<<">", "=">>), Symbol(<<"a", "?">>),
           Symbol(True),
           String(<<"a">>),
           Number(Zero), Number(I64(FALSE, <<4, 2>>)), Number(I64(FALSE, I64Max)),
           Number(I64(TRUE, <<5>>)),
           Void, List(<<>>)}

RECURSIVE ValuesOfSize(_)
RECURSIVE ListsOfSize(_)
\* the sequences of values with m nodes in all
ListsOfSize(m) ==
    IF m = 0 THEN {<<>>}
    ELSE UNION {{<<v>> \o l : v \in ValuesOfSize(k), l \in ListsOfSize(m - k)} : k \in 1..m}

\* the values with exactly n nodes
ValuesOfSize(n) ==
    IF n = 1 THEN Leaves
    ELSE {Unevaluated(v) : v \in ValuesOfSize(n - 1)}
         \cup {List(l) : l \in ListsOfSize(n - 1)}

Values == UNION {ValuesOfSize(n) : n \in 1..MaxNodes}

----------------------------------------------------------------------------
(* The caller of parse: it feeds the remainder back until the text is used *)
(* up or a call fails, and prints each value it gets and reads it again.   *)

Init ==
    /\ input \in Texts(Vocab, MaxPieces)
    /\ rest = input
    /\ forms = <<>>
    /\ pc = "ready"
    /\ arg = <<>>
    /\ res = Err
    /\ val = Void
    /\ shown = <<>>
    /\ echo = Err

ParseOk ==
    /\ pc = "ready"
    /\ parse(rest).ok
    /\ arg' = rest
    /\ res' = parse(rest)
    /\ forms' = Append(forms, res'.out)
    /\ val' = res'.out
    /\ rest' = res'.rest
    /\ pc' = "parsed"
    /\ UNCHANGED <<input, shown, echo>>

ParseFail ==
    /\ pc = "ready"
    /\ ~parse(rest).ok
    /\ arg' = rest
    /\ res' = parse(rest)
    /\ pc' = "failed"
    /\ UNCHANGED <<input, rest, forms, val, shown, echo>>

Render ==
    /\ pc = "parsed"
    /\ shown' = Display(val)
    /\ pc' = "shown"
    /\ UNCHANGED <<input, rest, forms, arg, res, val, echo>>

Reparse ==
    /\ pc = "shown"
    /\ echo' = parse(shown)
    /\ pc' = IF rest = <<>> THEN "done" ELSE "ready"
    /\ UNCHANGED <<input, rest, forms, arg, res, val, shown>>

Next == ParseOk \/ ParseFail \/ Render \/ Reparse

Spec == Init /\ [][Next]_vars

----------------------------------------------------------------------------
(* A value built directly (by an evaluator), rendered and read back. *)

InitValue ==
    /\ val \in Values
    /\ pc = "parsed"
    /\ input = <<>>
    /\ rest = <<>>
    /\ forms = <<>>
    /\ arg = <<>>
    /\ res = Err
    /\ shown = <<>>
    /\ echo = Err

NextValue == Render \/ Reparse

ValueSpec == InitValue /\ [][NextValue]_vars

----------------------------------------------------------------------------
(* One parser applied once to a text. *)

InitUnit ==
    /\ input \in Texts(UnitVocab, MaxUnitPieces)
    /\ rest = input
    /\ forms = <<>>
    /\ pc = "unit"
    /\ arg = <<>>
    /\ res = Err
    /\ val = Void
    /\ shown = <<>>
    /\ echo = Err

Apply(fn, out) ==
    /\ pc = "unit"
    /\ arg' = input
    /\ res' = out
    /\ pc' = fn
    /\ UNCHANGED <<input, rest, forms, val, shown, echo>>

ApplySymbol == Apply("parse_symbol", parse_symbol(input))
ApplyNumber == Apply("parse_number", parse_number(input))
ApplyExpression == Apply("parse_expression", parse_expression(input))
ApplyParse == Apply("parse", parse(input))

NextUnit == ApplySymbol \/ ApplyNumber \/ ApplyExpression \/ ApplyParse

UnitSpec == InitUnit /\ [][NextUnit]_vars

----------------------------------------------------------------------------
(* Helpers of the properties. *)

IsSuffix(t, s) == Len(t) <= Len(s) /\ Drop(s, Len(s) - Len(t)) = t

\* the length of the longest prefix of s inside cs, stated without recursion
MaxRun(s, cs) ==
    CHOOSE n \in 0..Len(s) :
        /\ \A i \in 1..n : s[i] \in cs
        /\ n = Len(s) \/ s[n + 1] \notin cs

\* s without its whitespace
Compact(s) == SelectSeq(s, LAMBDA c : c \notin Space)

\* the text the last call of parse consumed
Consumed == Take(arg, Len(arg) - Len(res.rest))

\* v under n quote wrappers
RECURSIVE Wrap(_, _)
Wrap(n, v) == IF n = 0 THEN v ELSE Unevaluated(Wrap(n - 1, v))

----------------------------------------------------------------------------
(* C6  Top-level entry: a successful parse returns the value of one        *)
(* dispatcher call on its input; the remainder is a suffix of the input,   *)
(* does not begin with whitespace, and only whitespace lies between the    *)
(* end of the expression and the remainder.                                *)

TopLevelEntry ==
    res.ok =>
        LET e == parse_expression(arg)
            gap == Len(e.rest) - Len(res.rest)
        IN  /\ e.ok
            /\ res.out = e.out
            /\ IsSuffix(res.rest, arg)
            /\ res.rest = <<>> \/ Head(res.rest) \notin Space
            /\ gap >= 0
            /\ Drop(e.rest, gap) = res.rest
            /\ \A i \in 1..gap : e.rest[i] \in Space

TopLevelEntryWitness ==
    /\ pc = "parsed"
    /\ arg = <<"a", " ", " ", ">">>
    /\ res = Ok(<<">">>, Symbol(<<"a">>))

----------------------------------------------------------------------------
(* C7  Quote parsing: n >= 1 apostrophes followed by a text e that parses  *)
(* to v parse to v under exactly n Unevaluated wrappers, with the          *)
(* remainder that parsing e leaves; if e does not parse, the quoted text   *)
(* does not parse either.                                                  *)

QuoteNesting ==
    \A n \in 1..MaxRun(arg, {"'"}) :
        LET inner == parse(Drop(arg, n))
        IN  IF inner.ok
            THEN res = Ok(inner.rest, Wrap(n, inner.out))
            ELSE ~res.ok

QuoteNestingWitness ==
    /\ pc = "parsed"
    /\ arg = <<"'", "'", "a", " ">>
    /\ res = Ok(<<>>, Unevaluated(Unevaluated(Symbol(<<"a">>))))

----------------------------------------------------------------------------
(* C3  Dispatcher priority: after the leading whitespace parse_expression  *)
(* returns the result of the first of Quote, Number, Symbol, String, List  *)
(* that succeeds there and fails only if all five fail; a text spelled     *)
(* true or false gives Number(1) or Number(0), never a Symbol.             *)

DispatcherPriority ==
    pc = "parse_expression" =>
        LET s == Drop(arg, MaxRun(arg, Space))
            q == parse_unevaluated(s)
            n == parse_number(s)
            y == parse_symbol(s)
            g == parse_string(s)
            l == parse_list(s)
        IN  /\ res = IF q.ok THEN q
                     ELSE IF n.ok THEN Ok(n.rest, Number(n.out))
                     ELSE IF y.ok THEN Ok(y.rest, Symbol(y.out))
                     ELSE IF g.ok THEN Ok(g.rest, String(g.out))
                     ELSE IF l.ok THEN Ok(l.rest, List(l.out))
                     ELSE Err
            /\ StartsWith(s, True) => res = Ok(Drop(s, 4), Number(One))
            /\ StartsWith(s, False) => res = Ok(Drop(s, 5), Number(Zero))

DispatcherPriorityWitness ==
    /\ pc = "parse_expression"
    /\ arg = <<" ">> \o True \o <<"a">>
    /\ res = Ok(<<"a">>, Number(One))

----------------------------------------------------------------------------
(* C8  Symbol grammar: parse_symbol succeeds exactly on a text that begins *)
(* with an operator character, a letter or an underscore.  On an operator  *)
(* start it returns the whole maximal run of operator characters; on an    *)
(* identifier start it returns the first character, the maximal run of     *)
(* alphanumeric or underscore characters after it, and one `?` if one      *)
(* follows.                                                                *)

SymbolGrammar ==
    pc = "parse_symbol" =>
        IF arg # <<>> /\ Head(arg) \in Operators
        THEN LET n == MaxRun(arg, Operators)
             IN  res = Ok(Drop(arg, n), Take(arg, n))
        ELSE IF arg # <<>> /\ Head(arg) \in Alpha \cup {"_"}
        THEN LET m == 1 + MaxRun(Tail(arg), AlphaNum \cup {"_"})
                 n == IF m < Len(arg) /\ arg[m + 1] = "?" THEN m + 1 ELSE m
             IN  res = Ok(Drop(arg, n), Take(arg, n))
        ELSE ~res.ok

SymbolGrammarWitness ==
    /\ pc = "parse_symbol"
    /\ arg = <<">", "=", "a">>
    /\ res = Ok(<<"a">>, <<">", "=">>)

----------------------------------------------------------------------------
(* C5  Overflow as failure: on a text that is a run of decimal digits,     *)
(* parse returns the Number of the run's value, with an empty remainder,   *)
(* exactly when the value is at most 2^63 - 1 (leading zeros allowed), and *)
(* fails otherwise.                                                        *)

I64MaxText ==
    <<"9", "2", "2", "3", "3", "7", "2", "0", "3", "6",
      "8", "5", "4", "7", "7", "5", "8", "0", "7">>

\* the significant digits of a digit run
Significant(ds) == Drop(ds, MaxRun(ds, {"0"}))

\* a <= b for digit texts of the same length, by their first difference
TextLeq(a, b) ==
    \/ a = b
    \/ \E i \in 1..Len(a) :
          /\ \A j \in 1..(i - 1) : a[j] = b[j]
          /\ DigitVal(a[i]) < DigitVal(b[i])

FitsI64(ds) ==
    LET g == Significant(ds)
    IN  \/ Len(g) < Len(I64MaxText)
        \/ Len(g) = Len(I64MaxText) /\ TextLeq(g, I64MaxText)

ValueOf(ds) ==
    LET g == Significant(ds)
    IN  IF g = <<>> THEN Zero ELSE I64(FALSE, [i \in 1..Len(g) |-> DigitVal(g[i])])

OverflowAsFailure ==
    (pc = "parse" /\ arg # <<>> /\ \A i \in 1..Len(arg) : arg[i] \in Digit) =>
        IF FitsI64(arg) THEN res = Ok(<<>>, Number(ValueOf(arg))) ELSE res = Err

OverflowAsFailureWitness ==
    /\ pc = "parse"
    /\ arg = <<"0">> \o Take(I64MaxText, 18) \o <<"8">>
    /\ res = Err

----------------------------------------------------------------------------
(* C4  All-or-nothing failure: a call of parse ends with a value and a     *)
(* remainder or with a failure that carries no value, and a value accounts *)
(* for every character it consumed: text that matches no alternative       *)
(* inside a list or after a quote marker makes the whole parse fail.       *)
(* (The spelling of a number is not kept by its value, so the characters   *)
(* are compared on texts without `true` and without a zero-led digit run.) *)

\* no boolean literal and no digit run with a leading zero
PlainSpelling(s) ==
    /\ \A i \in 1..Len(s) : s[i] # "t"
    /\ \A i \in 1..(Len(s) - 1) : ~(s[i] = "0" /\ s[i + 1] \in Digit)

----------------------------------------------------------------------------
(* C10  Render-reparse stability on parser output: the value parse returns *)
(* for a text without string literals, rendered with Display and parsed    *)
(* again, comes back unchanged with an empty remainder.                    *)

RenderReparseStable ==
    (pc \in {"ready", "done"} /\ res.ok) =>
        /\ val = res.out
        /\ shown = Display(val)
        /\ echo = Ok(<<>>, val)

RenderReparseStableWitness ==
    /\ pc = "done"
    /\ arg = <<"(", "0">> \o True \o <<")">>
    /\ shown = <<"(", "0", " ", "1", ")">>
    /\ echo = Ok(<<>>, List(<<Number(Zero), Number(One)>>))

----------------------------------------------------------------------------
(* C9  Sequential top-level parsing: every successful call of parse leaves *)
(* a remainder strictly shorter than its input and adds its value after    *)
(* the values of the earlier calls; every step of the caller lowers a      *)
(* natural-number variant, so the caller makes finitely many calls, and it *)
(* stops only at a failure or at an empty remainder.                       *)

\* steps the caller can still take, at most
Variant ==
    3 * Len(rest) + CASE pc = "parsed" -> 3
                      [] pc = "shown" -> 2
                      [] pc = "ready" -> 1
                      [] OTHER -> 0

SequentialProgress ==
    /\ [][/\ Variant' < Variant
          /\ (pc = "ready" /\ pc' = "parsed") =>
                /\ Len(rest') < Len(rest)
                /\ IsSuffix(rest', rest)
                /\ forms' = Append(forms, parse(rest).out)]_vars
    /\ [](/\ Variant >= 0
          /\ IsSuffix(rest, input)
          /\ pc = "done" => rest = <<>>
          /\ pc = "failed" => ~parse(rest).ok)

SequentialProgressWitness ==
    /\ pc = "done"
    /\ input = <<"a", " ", "(", ")">>
    /\ forms = <<Symbol(<<"a">>), List(<<>>)>>

----------------------------------------------------------------------------
(* C2  Whitespace insensitivity: for a text parse accepts, a blank put in  *)
(* at a token boundary (at either end, or next to a parenthesis, a quote   *)
(* marker or whitespace) leaves the value unchanged.                       *)

Delimiters == {"(", ")", "'"} \cup Space

Boundaries(s) ==
    {i \in 0..Len(s) :
        \/ i = 0
        \/ i = Len(s)
        \/ s[i] \in Delimiters
        \/ s[i + 1] \in Delimiters}

InsertAt(s, i, t) == Take(s, i) \o t \o Drop(s, i)

WhitespaceInsensitive ==
    res.ok =>
        \A i \in Boundaries(Consumed) :
            LET r == parse(InsertAt(arg, i, <<" ">>))
            IN  r.ok /\ r.out = res.out

----------------------------------------------------------------------------
(* C1  Round trip, as the specification states it: every value other than *)
(* a bare Void, rendered and parsed again, comes back unchanged.           *)

RoundTripAnyValue ==
    (pc = "done" /\ val # Void) => echo = Ok(<<>>, val)

\* the texts parse_symbol returns that the dispatcher hands to it
SymbolToken(s) ==
    /\ s # <<>>
    /\ ~StartsWith(s, True)
    /\ ~StartsWith(s, False)
    /\ \/ \A i \in 1..Len(s) : s[i] \in Operators
       \/ /\ s[1] \in Alpha \cup {"_"}
          /\ \A i \in 2..(Len(s) - 1) : s[i] \in AlphaNum \cup {"_"}
          /\ Len(s) > 1 => s[Len(s)] \in AlphaNum \cup {"_", "?"}

RECURSIVE Readable(_)
Readable(v) ==
    CASE v.t = "Symbol" -> SymbolToken(v.s)
      [] v.t = "Number" -> ~v.n.neg
      [] v.t = "Unevaluated" -> Readable(v.v)
      [] v.t = "List" -> \A i \in 1..Len(v.l) : Readable(v.l[i])
      [] OTHER -> FALSE

(* C1 as amended: a value built from List, Unevaluated, Symbol whose text  *)
(* is one symbol token not beginning with true or false, and Number with a *)
(* payload >= 0 (no String, no Void anywhere), rendered and parsed again,  *)
(* comes back unchanged with an empty remainder.                           *)

RoundTripReadable ==
    (pc = "done" /\ Readable(val)) => echo = Ok(<<>>, val)

RoundTripReadableWitness ==
    /\ pc = "done"
    /\ val = List(<<Symbol(<<">", "=">>), Number(I64(FALSE, I64Max))>>)
    /\ echo = Ok(<<>>, val)

=============================================================================
